---- MODULE Spec2Model ----
(***************************************************************************)
(* Proof-of-work retargeting core of Doriancoin (src/pow.cpp).             *)
(*                                                                         *)
(* 256-bit and 64-bit quantities do not fit the model checker's integers,  *)
(* so they are carried as little-endian sequences of base-256 digits       *)
(* without leading zeros (<<>> is 0).  Every operator below computes the   *)
(* exact mathematical result; the width of the C++ type is applied         *)
(* explicitly with Lo (reduction modulo 2^(8*n)).                          *)
(***************************************************************************)
EXTENDS Integers, Sequences, FiniteSets, TLC

---------------------------------------------------------------------------
(* Natural numbers as digit sequences                                      *)

\* The digit loops below split their range in halves, passing the carry (or
\* remainder) from one half to the other, so that the nesting of evaluation
\* grows with the logarithm of the length.

\* drop leading zero digits
Norm(d) ==
    LET nz == {i \in 1..Len(d) : d[i] # 0}
    IN  IF nz = {} THEN <<>>
        ELSE SubSeq(d, 1, CHOOSE i \in nz : \A j \in nz : j <= i)

RECURSIVE FromInt(_)
FromInt(n) == IF n = 0 THEN <<>> ELSE <<n % 256>> \o FromInt(n \div 256)

RECURSIVE ToIntFrom(_, _)
ToIntFrom(d, i) == IF i > Len(d) THEN 0 ELSE d[i] + 256 * ToIntFrom(d, i + 1)

\* value of a digit sequence below 2^31
ToInt(d) == ToIntFrom(d, 1)

Digit(d, i) == IF i <= Len(d) THEN d[i] ELSE 0

Pow256(k) == CASE k = 0 -> 1 [] k = 1 -> 256 [] k = 2 -> 65536 [] k = 3 -> 16777216

\* -1, 0, 1 as a < b, a = b, a > b
Cmp(a, b) ==
    IF Len(a) < Len(b) THEN -1
    ELSE IF Len(a) > Len(b) THEN 1
    ELSE LET df == {i \in 1..Len(a) : a[i] # b[i]}
         IN  IF df = {} THEN 0
             ELSE LET top == CHOOSE i \in df : \A j \in df : j <= i
                  IN  IF a[top] < b[top] THEN -1 ELSE 1

Leq(a, b) == Cmp(a, b) <= 0
Less(a, b) == Cmp(a, b) < 0

\* digits lo..hi of a + b + c and the carry out of them
RECURSIVE AddRange(_, _, _, _, _)
AddRange(a, b, lo, hi, c) ==
    IF lo = hi
    THEN LET s == Digit(a, lo) + Digit(b, lo) + c
         IN  <<(<<s % 256>>), s \div 256>>
    ELSE LET mid  == (lo + hi) \div 2
             low  == AddRange(a, b, lo, mid, c)
             high == AddRange(a, b, mid + 1, hi, low[2])
         IN  <<low[1] \o high[1], high[2]>>

Add(a, b) ==
    IF a = <<>> THEN b
    ELSE IF b = <<>> THEN a
    ELSE LET n == IF Len(a) > Len(b) THEN Len(a) ELSE Len(b)
             r == AddRange(a, b, 1, n, 0)
         IN  IF r[2] = 0 THEN r[1] ELSE Append(r[1], r[2])

\* digits lo..hi of a - b - c and the borrow out of them
RECURSIVE SubRange(_, _, _, _, _)
SubRange(a, b, lo, hi, c) ==
    IF lo = hi
    THEN LET s == a[lo] - Digit(b, lo) - c
         IN  IF s < 0 THEN <<(<<s + 256>>), 1>> ELSE <<(<<s>>), 0>>
    ELSE LET mid  == (lo + hi) \div 2
             low  == SubRange(a, b, lo, mid, c)
             high == SubRange(a, b, mid + 1, hi, low[2])
         IN  <<low[1] \o high[1], high[2]>>

\* a - b for a >= b
Sub(a, b) ==
    IF b = <<>> \/ a = <<>> THEN a
    ELSE Norm(SubRange(a, b, 1, Len(a), 0)[1])

\* digits lo..hi of a * m + c and the carry out of them
RECURSIVE MulIntRange(_, _, _, _, _)
MulIntRange(a, m, lo, hi, c) ==
    IF lo = hi
    THEN LET s == a[lo] * m + c
         IN  <<(<<s % 256>>), s \div 256>>
    ELSE LET mid  == (lo + hi) \div 2
             low  == MulIntRange(a, m, lo, mid, c)
             high == MulIntRange(a, m, mid + 1, hi, low[2])
         IN  <<low[1] \o high[1], high[2]>>

\* a * m for 0 <= m < 2^22
MulInt(a, m) ==
    IF m = 0 \/ a = <<>> THEN <<>>
    ELSE LET r == MulIntRange(a, m, 1, Len(a), 0)
         IN  r[1] \o FromInt(r[2])

Zeros(n) == [i \in 1..n |-> 0]

\* a * 256^n
ShlBytes(a, n) == IF a = <<>> THEN <<>> ELSE Zeros(n) \o a

\* floor(a / 256^n)
ShrBytes(a, n) == IF n >= Len(a) THEN <<>> ELSE SubSeq(a, n + 1, Len(a))

\* a times the digits lo..hi of b, in place
RECURSIVE MulRange(_, _, _, _)
MulRange(a, b, lo, hi) ==
    IF lo = hi THEN ShlBytes(MulInt(a, b[lo]), lo - 1)
    ELSE LET mid == (lo + hi) \div 2
         IN  Add(MulRange(a, b, lo, mid), MulRange(a, b, mid + 1, hi))

Mul(a, b) == IF a = <<>> \/ b = <<>> THEN <<>> ELSE MulRange(a, b, 1, Len(b))

Pow2(k) == CASE k = 0 -> 1 [] k = 1 -> 2 [] k = 2 -> 4 [] k = 3 -> 8
             [] k = 4 -> 16 [] k = 5 -> 32 [] k = 6 -> 64 [] k = 7 -> 128

\* the largest q in 0..255 with b*q <= r, found bit by bit (b > 0, r < 256*b)
RECURSIVE QuotDigit(_, _, _, _)
QuotDigit(r, b, q, k) ==
    IF k < 0 THEN q
    ELSE LET q2 == q + Pow2(k)
         IN  IF Leq(MulInt(b, q2), r) THEN QuotDigit(r, b, q2, k - 1)
             ELSE QuotDigit(r, b, q, k - 1)

\* schoolbook long division of the digits hi..lo of a, most significant first,
\* with r the remainder carried in: <<quotient digits lo..hi, remainder>>
\* (the upper half is divided first; the remainder it hands down is below b)
RECURSIVE DivModRange(_, _, _, _, _)
DivModRange(a, b, lo, hi, r) ==
    IF lo = hi
    THEN LET r1 == Norm(<<a[lo]>> \o r)
             qd == QuotDigit(r1, b, 0, 7)
         IN  <<(<<qd>>), Sub(r1, MulInt(b, qd))>>
    ELSE LET mid  == (lo + hi) \div 2
             high == DivModRange(a, b, mid + 1, hi, r)
             low  == DivModRange(a, b, lo, mid, high[2])
         IN  CASE Less(high[2], b) -> <<low[1] \o high[1], low[2]>>

\* digits lo..hi of floor(a / m) and the remainder, with r carried in
RECURSIVE DivIntRange(_, _, _, _, _)
DivIntRange(a, m, lo, hi, r) ==
    IF lo = hi
    THEN LET v == r * 256 + a[lo]
         IN  <<(<<v \div m>>), v % m>>
    ELSE LET mid  == (lo + hi) \div 2
             high == DivIntRange(a, m, mid + 1, hi, r)
             low  == DivIntRange(a, m, lo, mid, high[2])
         IN  CASE high[2] < m -> <<low[1] \o high[1], low[2]>>

\* floor(a / m) for 0 < m < 2^22
DivInt(a, m) == IF a = <<>> THEN <<>> ELSE Norm(DivIntRange(a, m, 1, Len(a), 0)[1])

IsSmall(b) == Len(b) <= 2 \/ (Len(b) = 3 /\ b[3] < 64)

\* floor(a / b) for b > 0
Div(a, b) ==
    IF IsSmall(b) THEN DivInt(a, ToInt(b))
    ELSE IF a = <<>> THEN <<>>
    ELSE Norm(DivModRange(a, b, 1, Len(a), <<>>)[1])

\* a * n for an integer n >= 0
Times(a, n) == IF n < 4194304 THEN MulInt(a, n) ELSE Mul(a, FromInt(n))

\* a * 2^n
Shl(a, n) == ShlBytes(MulInt(a, Pow2(n % 8)), n \div 8)

\* floor(a / 2^n)
Shr(a, n) == DivInt(ShrBytes(a, n \div 8), Pow2(n % 8))

\* a mod 256^n: the value an n-byte unsigned integer keeps
Lo(a, n) == IF Len(a) <= n THEN a ELSE Norm(SubSeq(a, 1, n))

BitLen8(x) == CASE x = 0 -> 0 [] x < 2 -> 1 [] x < 4 -> 2 [] x < 8 -> 3
                [] x < 16 -> 4 [] x < 32 -> 5 [] x < 64 -> 6 [] x < 128 -> 7
                [] OTHER -> 8

\* position of the highest set bit plus one
Bits(a) == IF a = <<>> THEN 0 ELSE 8 * (Len(a) - 1) + BitLen8(a[Len(a)])


---------------------------------------------------------------------------
(* arith_uint256: compact encoding (arith_uint256.cpp is not part of the   *)
(* sources at hand; SetCompact and GetCompact follow the encoding rules of *)
(* the specification, section 4.1)                                         *)

\* an arith_uint256 keeps the low 256 bits of every result
U256(a) == Lo(a, 32)

\* decode: exponent byte E = bits 31..24, sign = bit 23, mantissa M = bits 22..0
SetCompact(nCompact) ==
    LET nSize == nCompact \div 16777216
        nWord == nCompact % 8388608
        sign  == (nCompact \div 8388608) % 2
    IN  [target    |-> IF nSize <= 3
                       THEN FromInt(nWord \div Pow256(3 - nSize))
                       ELSE U256(ShlBytes(FromInt(nWord), nSize - 3)),
         fNegative |-> nWord # 0 /\ sign = 1,
         fOverflow |-> nWord # 0 /\ (\/ nSize > 34
                                     \/ nWord > 255 /\ nSize > 33
                                     \/ nWord > 65535 /\ nSize > 32)]

\* encode: minimal size in bytes, top three bytes as mantissa, one more byte
\* of size when the mantissa would reach the sign bit
GetCompact(t) ==
    LET nSize == (Bits(t) + 7) \div 8
        c     == IF nSize <= 3
                 THEN ToInt(t) * Pow256(3 - nSize)
                 ELSE ToInt(ShrBytes(t, nSize - 3))
    IN  IF c >= 8388608
        THEN (c \div 256) + (nSize + 1) * 16777216
        ELSE c + nSize * 16777216

---------------------------------------------------------------------------
(* Outcomes that are not a compact target                                  *)

\* a failed assert() ends the process
AssertFail == -1
\* arith_uint256 division by zero raises uint_error
UintError == -2

---------------------------------------------------------------------------
(* BTC retargeter                                                          *)

DifficultyAdjustmentInterval(params) ==
    params.nPowTargetTimespan \div params.nPowTargetSpacing

\* lines 84-85, 169-170, 249-250, 392-393: if (bnNew > bnPowLimit) bnNew = bnPowLimit
ClampToPowLimit(bnNew, bnPowLimit) == IF Less(bnPowLimit, bnNew) THEN bnPowLimit ELSE bnNew

\* the retarget without the one-bit guard of lines 76-82
Retarget_NoShift(bnNew, nActualTimespan, nPowTargetTimespan, bnPowLimit) ==
    Div(U256(Times(bnNew, nActualTimespan)), FromInt(nPowTargetTimespan))

\* lines 73-82: bnNew * nActualTimespan / nPowTargetTimespan, one bit lower
\* while multiplying when bnNew is as wide as the limit
Retarget(bnNew, nActualTimespan, nPowTargetTimespan, bnPowLimit) ==
    IF Bits(bnNew) > Bits(bnPowLimit) - 1
    THEN U256(Shl(Div(U256(Times(Shr(bnNew, 1), nActualTimespan)),
                      FromInt(nPowTargetTimespan)), 1))
    ELSE Div(U256(Times(bnNew, nActualTimespan)), FromInt(nPowTargetTimespan))

\* the adjustment step limited to a factor of 2 instead of 4
CalculateNextWorkRequired_FactorTwo(idx, pindexLast, nFirstBlockTime, params) ==
    IF params.fPowNoRetargeting THEN idx[pindexLast].nBits
    ELSE
    LET span   == params.nPowTargetTimespan
        a0     == idx[pindexLast].nTime - nFirstBlockTime
        a1     == IF a0 < span \div 2 THEN span \div 2 ELSE a0
        nActualTimespan == IF a1 > span * 2 THEN span * 2 ELSE a1
    IN  GetCompact(ClampToPowLimit(
            Retarget(SetCompact(idx[pindexLast].nBits).target, nActualTimespan,
                     span, params.powLimit),
            params.powLimit))

CalculateNextWorkRequired(idx, pindexLast, nFirstBlockTime, params) ==
    IF params.fPowNoRetargeting THEN idx[pindexLast].nBits
    ELSE
    LET span   == params.nPowTargetTimespan
        a0     == idx[pindexLast].nTime - nFirstBlockTime
        a1     == IF a0 < span \div 4 THEN span \div 4 ELSE a0
        nActualTimespan == IF a1 > span * 4 THEN span * 4 ELSE a1
    IN  GetCompact(ClampToPowLimit(
            Retarget(SetCompact(idx[pindexLast].nBits).target, nActualTimespan,
                     span, params.powLimit),
            params.powLimit))

\* the loop of line 32 walking on over retarget boundaries
RECURSIVE LastNonMinDifficulty_OverBoundaries(_, _, _, _)
LastNonMinDifficulty_OverBoundaries(idx, pindex, interval, nProofOfWorkLimit) ==
    IF /\ idx[pindex].pprev # 0
       /\ idx[pindex].nBits = nProofOfWorkLimit
    THEN LastNonMinDifficulty_OverBoundaries(idx, idx[pindex].pprev, interval,
                                             nProofOfWorkLimit)
    ELSE pindex

\* the loop of line 32: skip min-difficulty blocks that are not on a boundary
RECURSIVE LastNonMinDifficulty(_, _, _, _)
LastNonMinDifficulty(idx, pindex, interval, nProofOfWorkLimit) ==
    IF /\ idx[pindex].pprev # 0
       /\ idx[pindex].nHeight % interval # 0
       /\ idx[pindex].nBits = nProofOfWorkLimit
    THEN LastNonMinDifficulty(idx, idx[pindex].pprev, interval, nProofOfWorkLimit)
    ELSE pindex

\* the loop of line 49: n parents back, or null (0) when the chain is shorter
RECURSIVE StepBack(_, _, _)
StepBack(idx, pindexFirst, n) ==
    IF pindexFirst # 0 /\ n > 0
    THEN StepBack(idx, idx[pindexFirst].pprev, n - 1)
    ELSE pindexFirst

\* the BTC retargeter going back the full interval at the first retarget too
GetNextWorkRequiredBTC_FullInterval(idx, pindexLast, blockTime, params) ==
    LET nProofOfWorkLimit == GetCompact(params.powLimit)
        interval == DifficultyAdjustmentInterval(params)
        nHeight  == idx[pindexLast].nHeight + 1
    IN  IF nHeight % interval # 0
        THEN IF params.fPowAllowMinDifficultyBlocks
             THEN IF blockTime > idx[pindexLast].nTime + params.nPowTargetSpacing * 2
                  THEN nProofOfWorkLimit
                  ELSE idx[LastNonMinDifficulty(idx, pindexLast, interval,
                                                nProofOfWorkLimit)].nBits
             ELSE idx[pindexLast].nBits
        ELSE LET pindexFirst == StepBack(idx, pindexLast, interval)
             IN  IF pindexFirst = 0 THEN AssertFail
                 ELSE CalculateNextWorkRequired(idx, pindexLast,
                                                idx[pindexFirst].nTime, params)

GetNextWorkRequiredBTC(idx, pindexLast, blockTime, params) ==
    LET nProofOfWorkLimit == GetCompact(params.powLimit)
        interval == DifficultyAdjustmentInterval(params)
        nHeight  == idx[pindexLast].nHeight + 1
    IN  IF nHeight % interval # 0
        THEN IF params.fPowAllowMinDifficultyBlocks
             THEN IF blockTime > idx[pindexLast].nTime + params.nPowTargetSpacing * 2
                  THEN nProofOfWorkLimit
                  ELSE idx[LastNonMinDifficulty(idx, pindexLast, interval,
                                                nProofOfWorkLimit)].nBits
             ELSE idx[pindexLast].nBits
        ELSE LET blockstogoback == IF nHeight # interval THEN interval ELSE interval - 1
                 pindexFirst == StepBack(idx, pindexLast, blockstogoback)
             IN  IF pindexFirst = 0 THEN AssertFail
                 ELSE CalculateNextWorkRequired(idx, pindexLast,
                                                idx[pindexFirst].nTime, params)

---------------------------------------------------------------------------
(* LWMA v1 and v2                                                          *)

Min(a, b) == IF a < b THEN a ELSE b

\* the loop with every pair counted once in sumWeights instead of i times
RECURSIVE WeightedSolvetimes_UnitWeights(_, _, _, _, _, _)
WeightedSolvetimes_UnitWeights(idx, block, i, T, sumWeightedSolvetimes, sumWeights) ==
    IF i < 1 THEN <<sumWeightedSolvetimes, sumWeights>>
    ELSE LET prev == idx[block].pprev
         IN  IF prev = 0 THEN <<sumWeightedSolvetimes, sumWeights>>
             ELSE LET s0 == idx[block].nTime - idx[prev].nTime
                      s1 == IF s0 < 1 THEN 1 ELSE s0
                      solvetime == IF s1 > 6 * T THEN 6 * T ELSE s1
                  IN  WeightedSolvetimes_UnitWeights(idx, prev, i - 1, T,
                                         sumWeightedSolvetimes + solvetime * i,
                                         sumWeights + 1)

\* the loop ending already at a block whose parent has no parent
RECURSIVE WeightedSolvetimes_EarlyStop(_, _, _, _, _, _)
WeightedSolvetimes_EarlyStop(idx, block, i, T, sumWeightedSolvetimes, sumWeights) ==
    IF i < 1 THEN <<sumWeightedSolvetimes, sumWeights>>
    ELSE LET prev == idx[block].pprev
         IN  IF prev = 0 \/ idx[prev].pprev = 0
             THEN <<sumWeightedSolvetimes, sumWeights>>
             ELSE LET s0 == idx[block].nTime - idx[prev].nTime
                      s1 == IF s0 < 1 THEN 1 ELSE s0
                      solvetime == IF s1 > 6 * T THEN 6 * T ELSE s1
                  IN  WeightedSolvetimes_EarlyStop(idx, prev, i - 1, T,
                                         sumWeightedSolvetimes + solvetime * i,
                                         sumWeights + i)

\* the solvetime loop (lines 128-143, repeated verbatim at 214-229):
\* <<sumWeightedSolvetimes, sumWeights>>
RECURSIVE WeightedSolvetimes(_, _, _, _, _, _)
WeightedSolvetimes(idx, block, i, T, sumWeightedSolvetimes, sumWeights) ==
    IF i < 1 THEN <<sumWeightedSolvetimes, sumWeights>>
    ELSE LET prev == idx[block].pprev
         IN  IF prev = 0 THEN <<sumWeightedSolvetimes, sumWeights>>
             ELSE LET s0 == idx[block].nTime - idx[prev].nTime
                      s1 == IF s0 < 1 THEN 1 ELSE s0
                      solvetime == IF s1 > 6 * T THEN 6 * T ELSE s1
                  IN  WeightedSolvetimes(idx, prev, i - 1, T,
                                         sumWeightedSolvetimes + solvetime * i,
                                         sumWeights + i)

\* the adjustment with the upper cap on the weighted sum only
LWMANextTarget_NoLowerCap(target, sums, T, cap, powLimit) ==
    LET expectedWeightedSolvetimes == sums[2] * T
        maxWeightedSolvetimes == expectedWeightedSolvetimes * cap
        w2 == IF sums[1] > maxWeightedSolvetimes THEN maxWeightedSolvetimes ELSE sums[1]
    IN  IF expectedWeightedSolvetimes = 0 THEN UintError
        ELSE GetCompact(ClampToPowLimit(
                 Div(U256(Times(target, w2)), FromInt(expectedWeightedSolvetimes)),
                 powLimit))

\* target * clamp(sum, expected/cap, expected*cap) / expected, clamped to powLimit
LWMANextTarget(target, sums, T, cap, powLimit) ==
    LET expectedWeightedSolvetimes == sums[2] * T
        minWeightedSolvetimes == expectedWeightedSolvetimes \div cap
        maxWeightedSolvetimes == expectedWeightedSolvetimes * cap
        w1 == IF sums[1] < minWeightedSolvetimes THEN minWeightedSolvetimes ELSE sums[1]
        w2 == IF w1 > maxWeightedSolvetimes THEN maxWeightedSolvetimes ELSE w1
    IN  IF expectedWeightedSolvetimes = 0 THEN UintError
        ELSE GetCompact(ClampToPowLimit(
                 Div(U256(Times(target, w2)), FromInt(expectedWeightedSolvetimes)),
                 powLimit))

LWMABlocks(idx, pindexLast, params) ==
    Min(params.nLWMAWindow, (idx[pindexLast].nHeight + 1) - params.nLWMAHeight)

\* LWMA v1 computing already from two blocks of history
GetNextWorkRequiredLWMA_FromTwo(idx, pindexLast, params) ==
    LET T      == params.nPowTargetSpacing
        blocks == LWMABlocks(idx, pindexLast, params)
    IN  IF params.fPowNoRetargeting THEN idx[pindexLast].nBits
        ELSE IF blocks < 2 THEN idx[pindexLast].nBits
        ELSE LET prevTarget == SetCompact(idx[pindexLast].nBits).target
                 sums == WeightedSolvetimes(idx, pindexLast, blocks, T, 0, 0)
             IN  LWMANextTarget(prevTarget, sums, T, 10, params.powLimit)

GetNextWorkRequiredLWMA(idx, pindexLast, params) ==
    LET T      == params.nPowTargetSpacing
        blocks == LWMABlocks(idx, pindexLast, params)
    IN  IF params.fPowNoRetargeting THEN idx[pindexLast].nBits
        ELSE IF blocks < 3 THEN idx[pindexLast].nBits
        ELSE LET prevTarget == SetCompact(idx[pindexLast].nBits).target
                 sums == WeightedSolvetimes(idx, pindexLast, blocks, T, 0, 0)
             IN  LWMANextTarget(prevTarget, sums, T, 10, params.powLimit)

\* the loop of line 201: `blocks` parents back, stopping at a block without parent
RECURSIVE WindowStart(_, _, _)
WindowStart(idx, windowStart, n) ==
    IF n > 0 /\ idx[windowStart].pprev # 0
    THEN WindowStart(idx, idx[windowStart].pprev, n - 1)
    ELSE windowStart

\* LWMA v2 still referring to the tip's target
GetNextWorkRequiredLWMAv2_TipReference(idx, pindexLast, params) ==
    LET T      == params.nPowTargetSpacing
        blocks == LWMABlocks(idx, pindexLast, params)
    IN  IF params.fPowNoRetargeting THEN idx[pindexLast].nBits
        ELSE IF blocks < 3 THEN idx[pindexLast].nBits
        ELSE LET referenceTarget == SetCompact(idx[pindexLast].nBits).target
                 sums == WeightedSolvetimes(idx, pindexLast, blocks, T, 0, 0)
             IN  LWMANextTarget(referenceTarget, sums, T, 3, params.powLimit)

GetNextWorkRequiredLWMAv2(idx, pindexLast, params) ==
    LET T      == params.nPowTargetSpacing
        blocks == LWMABlocks(idx, pindexLast, params)
    IN  IF params.fPowNoRetargeting THEN idx[pindexLast].nBits
        ELSE IF blocks < 3 THEN idx[pindexLast].nBits
        ELSE LET windowStart == WindowStart(idx, pindexLast, blocks)
                 referenceTarget == SetCompact(idx[windowStart].nBits).target
                 sums == WeightedSolvetimes(idx, pindexLast, blocks, T, 0, 0)
             IN  LWMANextTarget(referenceTarget, sums, T, 3, params.powLimit)

---------------------------------------------------------------------------
(* ASERT                                                                   *)

\* A signed 64-bit value: sign and magnitude; zero has neg = FALSE.
Signed(neg, mag) == [neg |-> neg /\ mag # <<>>, mag |-> mag]

\* static_cast<int32_t> of a non-negative 64-bit value: the low 32 bits read
\* as two's complement
TwoTo31 == <<0, 0, 0, 128>>
TwoTo32 == <<0, 0, 0, 0, 1>>
CastInt32(u) ==
    LET w == Lo(u, 4)
    IN  IF Less(w, TwoTo31) THEN ToInt(w) ELSE 0 - ToInt(Sub(TwoTo32, w))

\* GetASERTAnchorBlock: <<anchor block or AssertFail, g_asert_anchor afterwards>>
RECURSIVE WalkToAnchor(_, _, _)
WalkToAnchor(idx, pindex, nASERTHeight) ==
    IF pindex = 0 THEN AssertFail
    ELSE IF idx[pindex].nHeight > nASERTHeight
         THEN WalkToAnchor(idx, idx[pindex].pprev, nASERTHeight)
    ELSE IF idx[pindex].nHeight = nASERTHeight THEN pindex
    ELSE AssertFail

\* an anchor lookup that caches the tip it was called on
GetASERTAnchorBlock_CachesTip(idx, pindexLast, params, cache) ==
    IF cache # 0 THEN <<cache, cache>>
    ELSE LET pindex == WalkToAnchor(idx, pindexLast, params.nASERTHeight)
         IN  IF pindex = AssertFail THEN <<AssertFail, cache>>
             ELSE <<pindex, pindexLast>>

GetASERTAnchorBlock(idx, pindexLast, params, cache) ==
    IF cache # 0 THEN <<cache, cache>>
    ELSE LET pindex == WalkToAnchor(idx, pindexLast, params.nASERTHeight)
         IN  IF pindex = AssertFail THEN <<AssertFail, cache>>
             ELSE <<pindex, pindex>>

\* the exponent with the height delta taken from the tip instead of the next block
ASERTExponent_TipHeight(timeDelta, heightDelta, T, halfLife) ==
    LET d == timeDelta - T * (heightDelta - 1)
        a == IF d < 0 THEN 0 - d ELSE d
    IN  Signed(d < 0, Div(ShlBytes(FromInt(a), 2), FromInt(halfLife)))

\* line 328: ((timeDelta - T * heightDelta) * 65536) / halfLife, truncating
ASERTExponent(timeDelta, heightDelta, T, halfLife) ==
    LET d == timeDelta - T * heightDelta
        a == IF d < 0 THEN 0 - d ELSE d
    IN  Signed(d < 0, Div(ShlBytes(FromInt(a), 2), FromInt(halfLife)))

\* lines 332-350: <<shifts, frac>>
ASERTDecompose(exponent) ==
    IF ~exponent.neg
    THEN <<CastInt32(ShrBytes(exponent.mag, 2)), ToInt(Lo(exponent.mag, 2))>>
    ELSE LET absExponent == exponent.mag
             s0 == 0 - CastInt32(ShrBytes(absExponent, 2))
             remainder == ToInt(Lo(absExponent, 2))
         IN  IF remainder # 0 THEN <<s0 - 1, 65536 - remainder>> ELSE <<s0, 0>>

\* lines 355-363: 65536 * 2^(frac/65536) by the cubic, in unsigned 64 bits
U64(a) == Lo(a, 8)
ASERTFactor_Shift47(frac) ==
    IF frac > 0
    THEN LET t1 == U64(MulInt(<<249, 208, 29, 108, 12, 178>>, frac))
             t2 == U64(MulInt(U64(MulInt(<<64, 209, 236, 57>>, frac)), frac))
             t3 == U64(MulInt(U64(MulInt(U64(MulInt(<<7, 20>>, frac)), frac)), frac))
             s  == U64(Add(U64(Add(U64(Add(t1, t2)), t3)), <<0, 0, 0, 0, 0, 128>>))
         IN  65536 + ToInt(Lo(Shr(s, 47), 4))
    ELSE 65536

ASERTFactor(frac) ==
    IF frac > 0
    THEN LET t1 == U64(MulInt(<<249, 208, 29, 108, 12, 178>>, frac))
             t2 == U64(MulInt(U64(MulInt(<<64, 209, 236, 57>>, frac)), frac))
             t3 == U64(MulInt(U64(MulInt(U64(MulInt(<<7, 20>>, frac)), frac)), frac))
             s  == U64(Add(U64(Add(U64(Add(t1, t2)), t3)), <<0, 0, 0, 0, 0, 128>>))
         IN  65536 + ToInt(Lo(ShrBytes(s, 6), 4))
    ELSE 65536

\* lines 382-385: nextTarget <<= shifts or nextTarget >>= -shifts, in 256 bits
ASERTShift(target, shifts) ==
    IF shifts > 0 THEN U256(Shl(target, shifts))
    ELSE IF shifts < 0 THEN Shr(target, 0 - shifts)
    ELSE target

\* lines 388-389: at least 1
ASERTFloor(target) == IF target = <<>> THEN <<1>> ELSE target

\* lines 330-395: the target for a given fixed-point exponent
ASERTFromShifts(shifts, frac, anchorTarget, powLimit) ==
    IF shifts >= 256 THEN GetCompact(powLimit)
    ELSE IF shifts < 0 /\ 0 - shifts >= 256 THEN GetCompact(<<1>>)
    ELSE GetCompact(ClampToPowLimit(ASERTFloor(
             ASERTShift(ShrBytes(U256(Times(anchorTarget, ASERTFactor(frac))), 2),
                        shifts)),
             powLimit))

ASERTFromExponent(exponent, anchorTarget, powLimit) ==
    ASERTFromShifts(ASERTDecompose(exponent)[1], ASERTDecompose(exponent)[2],
                    anchorTarget, powLimit)

\* [ret |-> compact target or AssertFail, anchor |-> g_asert_anchor afterwards]
GetNextWorkRequiredASERT(idx, pindexLast, params, cache) ==
    IF params.fPowNoRetargeting
    THEN [ret |-> idx[pindexLast].nBits, anchor |-> cache]
    ELSE LET found == GetASERTAnchorBlock(idx, pindexLast, params, cache)
             pindexAnchor == found[1]
         IN  IF pindexAnchor = AssertFail \/ idx[pindexAnchor].pprev = 0
             THEN [ret |-> AssertFail, anchor |-> found[2]]
             ELSE LET anchorTarget == SetCompact(params.nASERTAnchorBits).target
                      anchorParentTime == idx[idx[pindexAnchor].pprev].nTime
                      timeDelta == idx[pindexLast].nTime - anchorParentTime
                      heightDelta == (idx[pindexLast].nHeight + 1) - params.nASERTHeight
                      exponent == ASERTExponent(timeDelta, heightDelta,
                                                params.nPowTargetSpacing,
                                                params.nASERTHalfLife)
                  IN  [ret |-> ASERTFromExponent(exponent, anchorTarget, params.powLimit),
                       anchor |-> found[2]]

---------------------------------------------------------------------------
(* Dispatcher and proof-of-work check                                      *)

\* the dispatcher with LWMA v2 starting one block late
GetNextWorkRequired_FixHeightExclusive(idx, pindexLast, blockTime, params, cache) ==
    LET nHeight == idx[pindexLast].nHeight + 1
    IN  IF nHeight > params.nASERTHeight
        THEN GetNextWorkRequiredASERT(idx, pindexLast, params, cache)
        ELSE IF nHeight > params.nLWMAFixHeight
        THEN [ret |-> GetNextWorkRequiredLWMAv2(idx, pindexLast, params), anchor |-> cache]
        ELSE IF nHeight >= params.nLWMAHeight
        THEN [ret |-> GetNextWorkRequiredLWMA(idx, pindexLast, params), anchor |-> cache]
        ELSE [ret |-> GetNextWorkRequiredBTC(idx, pindexLast, blockTime, params),
              anchor |-> cache]

GetNextWorkRequired(idx, pindexLast, blockTime, params, cache) ==
    LET nHeight == idx[pindexLast].nHeight + 1
    IN  IF nHeight > params.nASERTHeight
        THEN GetNextWorkRequiredASERT(idx, pindexLast, params, cache)
        ELSE IF nHeight >= params.nLWMAFixHeight
        THEN [ret |-> GetNextWorkRequiredLWMAv2(idx, pindexLast, params), anchor |-> cache]
        ELSE IF nHeight >= params.nLWMAHeight
        THEN [ret |-> GetNextWorkRequiredLWMA(idx, pindexLast, params), anchor |-> cache]
        ELSE [ret |-> GetNextWorkRequiredBTC(idx, pindexLast, blockTime, params),
              anchor |-> cache]

\* the check refusing a hash equal to the target
CheckProofOfWork_RejectEqual(hash, nBits, params) ==
    LET c == SetCompact(nBits)
        bnTarget == c.target
    IN  IF \/ c.fNegative
           \/ bnTarget = <<>>
           \/ c.fOverflow
           \/ Less(params.powLimit, bnTarget)
        THEN FALSE
        ELSE IF Leq(bnTarget, hash) THEN FALSE
        ELSE TRUE

\* the check comparing the hash with powLimit instead of the claimed target
CheckProofOfWork_HashAgainstLimit(hash, nBits, params) ==
    LET c == SetCompact(nBits)
        bnTarget == c.target
    IN  IF \/ c.fNegative
           \/ bnTarget = <<>>
           \/ c.fOverflow
           \/ Less(params.powLimit, bnTarget)
        THEN FALSE
        ELSE IF Less(params.powLimit, hash) THEN FALSE
        ELSE TRUE

CheckProofOfWork(hash, nBits, params) ==
    LET c == SetCompact(nBits)
        bnTarget == c.target
    IN  IF \/ c.fNegative
           \/ bnTarget = <<>>
           \/ c.fOverflow
           \/ Less(params.powLimit, bnTarget)
        THEN FALSE
        ELSE IF Less(bnTarget, hash) THEN FALSE
        ELSE TRUE

---------------------------------------------------------------------------
(* Chain parameters and block index                                        *)

\* height of the last block of the index the model starts from
MaxHeight == 7

\* powLimit of the main network, 0x00000fff...ff (its compact form 0x1e0fffff
\* is the value the unit tests expect)
MainPowLimit == [i \in 1..30 |-> IF i < 30 THEN 255 ELSE 15]

\* Activation heights are lowered, as the unit tests do, so that a short chain
\* crosses them; the retarget interval is two blocks.
LwmaParams ==
    [powLimit |-> MainPowLimit, nPowTargetSpacing |-> 150, nPowTargetTimespan |-> 300,
     fPowAllowMinDifficultyBlocks |-> FALSE, fPowNoRetargeting |-> FALSE,
     nLWMAWindow |-> 4, nLWMAHeight |-> 1, nLWMAFixHeight |-> 5, nASERTHeight |-> 6,
     nASERTAnchorBits |-> 487587824, nASERTHalfLife |-> 300]

BtcParams ==
    [powLimit |-> MainPowLimit, nPowTargetSpacing |-> 150, nPowTargetTimespan |-> 300,
     fPowAllowMinDifficultyBlocks |-> FALSE, fPowNoRetargeting |-> FALSE,
     nLWMAWindow |-> 3, nLWMAHeight |-> 5, nLWMAFixHeight |-> 6, nASERTHeight |-> 6,
     nASERTAnchorBits |-> 504365040, nASERTHalfLife |-> 150]

TestnetParams == [BtcParams EXCEPT !.fPowAllowMinDifficultyBlocks = TRUE,
                                   !.nASERTAnchorBits = 454033408]

\* regtest: no retargeting, min-difficulty blocks allowed
RegtestParams == [BtcParams EXCEPT !.fPowAllowMinDifficultyBlocks = TRUE,
                                   !.fPowNoRetargeting = TRUE]

ParamSet == {LwmaParams, BtcParams, TestnetParams, RegtestParams}

TimePatterns == {"sched", "fast", "slow", "back", "late"}
BitsPatterns == {"limit", "mid", "one", "split", "minlate"}

\* seconds between the block at height h and its parent
Solvetime(tp, h, T) ==
    CASE tp = "sched" -> T
      [] tp = "fast"  -> 1
      [] tp = "slow"  -> 7 * T
      [] tp = "back"  -> IF h % 2 = 0 THEN 0 - T ELSE 2 * T
      [] tp = "late"  -> IF h <= 3 THEN 7 * T ELSE T

RECURSIVE TimeAt(_, _, _)
TimeAt(tp, h, T) ==
    IF h = 0 THEN 1394325760 ELSE TimeAt(tp, h - 1, T) + Solvetime(tp, h, T)

\* nBits of the block at height h: canonical encodings of targets in [1, powLimit],
\* as every block accepted into the index carries
BitsAt(bp, h, params) ==
    CASE bp = "limit"   -> GetCompact(params.powLimit)
      [] bp = "mid"     -> 487587824
      [] bp = "one"     -> 16842752
      [] bp = "split"   -> IF h <= 3 THEN 504365040 ELSE 487587824
      [] bp = "minlate" -> IF h <= 2 THEN 487587824 ELSE GetCompact(params.powLimit)

\* a well-formed chain: entry i is the block at height i - 1, pprev = 0 is nullptr
ChainOf(tp, bp, params) ==
    [i \in 1..(MaxHeight + 1) |->
        [nHeight |-> i - 1,
         nTime   |-> TimeAt(tp, i - 1, params.nPowTargetSpacing),
         nBits   |-> BitsAt(bp, i - 1, params),
         pprev   |-> i - 1]]

---------------------------------------------------------------------------
(* State                                                                   *)

VARIABLES
    params,          \* Consensus::Params
    index,           \* the block index (CBlockIndex entries)
    g_asert_anchor,  \* the cached anchor block, 0 for nullptr
    call,            \* the call in progress: operation and arguments
    ret,             \* its return value
    active,          \* the tip of the active chain
    resetPending,    \* the caller owes a ResetASERTAnchorCache() for a reorg
    threads          \* concurrent callers of GetNextWorkRequiredASERT: position,
                     \* arguments and locals of each

vars == <<params, index, g_asert_anchor, call, ret, active, resetPending, threads>>

NoCall == [op |-> "none"]
NoRet == "none"

Init ==
    /\ params \in ParamSet
    /\ \E tp \in TimePatterns, bp \in BitsPatterns : index = ChainOf(tp, bp, params)
    /\ g_asert_anchor = 0
    /\ call = NoCall
    /\ ret = NoRet
    /\ active = Len(index)
    /\ resetPending = FALSE
    /\ threads = <<>>

\* timestamp of the candidate header: on schedule, or more than 2*T late
HeaderTime(pindexLast, late) ==
    index[pindexLast].nTime
        + (IF late THEN 2 * params.nPowTargetSpacing + 1 ELSE params.nPowTargetSpacing)

CallGetNextWorkRequired(pindexLast, late) ==
    /\ call = NoCall
    /\ call' = [op |-> "GetNextWorkRequired", pindexLast |-> pindexLast,
                blockTime |-> HeaderTime(pindexLast, late),
                anchor |-> g_asert_anchor]
    /\ \E r \in {GetNextWorkRequired(index, pindexLast, HeaderTime(pindexLast, late),
                                     params, g_asert_anchor)} :
           /\ ret' = r.ret
           /\ g_asert_anchor' = r.anchor
    /\ UNCHANGED <<params, index>>
    /\ UNCHANGED <<active, resetPending, threads>>

CallGetNextWorkRequiredLWMA(pindexLast) ==
    /\ call = NoCall
    /\ call' = [op |-> "GetNextWorkRequiredLWMA", pindexLast |-> pindexLast,
                blockTime |-> HeaderTime(pindexLast, FALSE), anchor |-> g_asert_anchor]
    /\ ret' = GetNextWorkRequiredLWMA(index, pindexLast, params)
    /\ UNCHANGED <<params, index, g_asert_anchor>>
    /\ UNCHANGED <<active, resetPending, threads>>

CallGetNextWorkRequiredLWMAv2(pindexLast) ==
    /\ call = NoCall
    /\ call' = [op |-> "GetNextWorkRequiredLWMAv2", pindexLast |-> pindexLast,
                blockTime |-> HeaderTime(pindexLast, FALSE), anchor |-> g_asert_anchor]
    /\ ret' = GetNextWorkRequiredLWMAv2(index, pindexLast, params)
    /\ UNCHANGED <<params, index, g_asert_anchor>>
    /\ UNCHANGED <<active, resetPending, threads>>

CallGetNextWorkRequiredBTC(pindexLast, late) ==
    /\ call = NoCall
    /\ call' = [op |-> "GetNextWorkRequiredBTC", pindexLast |-> pindexLast,
                blockTime |-> HeaderTime(pindexLast, late), anchor |-> g_asert_anchor]
    /\ ret' = GetNextWorkRequiredBTC(index, pindexLast, HeaderTime(pindexLast, late), params)
    /\ UNCHANGED <<params, index, g_asert_anchor>>
    /\ UNCHANGED <<active, resetPending, threads>>

CallGetNextWorkRequiredASERT(pindexLast) ==
    /\ call = NoCall
    /\ call' = [op |-> "GetNextWorkRequiredASERT", pindexLast |-> pindexLast,
                blockTime |-> HeaderTime(pindexLast, FALSE),
                anchor |-> g_asert_anchor]
    /\ \E r \in {GetNextWorkRequiredASERT(index, pindexLast, params, g_asert_anchor)} :
           /\ ret' = r.ret
           /\ g_asert_anchor' = r.anchor
    /\ UNCHANGED <<params, index>>
    /\ UNCHANGED <<active, resetPending, threads>>

\* hashes around the targets that matter, as 256-bit unsigned integers
HashSet ==
    LET limit == params.powLimit
        enc   == SetCompact(GetCompact(limit)).target
        mid   == SetCompact(487587824).target
    IN  {<<>>, <<1>>, <<2>>, Sub(mid, <<1>>), mid, Add(mid, <<1>>),
         Sub(enc, <<1>>), enc, Add(enc, <<1>>), limit, Add(limit, <<1>>),
         U256(Times(limit, 2)), [i \in 1..32 |-> 255]}

\* claimed compact targets: valid ones, zero, negative, overflowing, too easy
BitsSet ==
    LET limit == GetCompact(params.powLimit)
    IN  {limit, 487587824, 16842752, 0, limit + 8388608, 25165824,
         2139095039, 587202561, GetCompact(U256(Times(params.powLimit, 2)))}

CallCheckProofOfWork(hash, nBits) ==
    /\ call = NoCall
    /\ call' = [op |-> "CheckProofOfWork", hash |-> hash, nBits |-> nBits]
    /\ ret' = CheckProofOfWork(hash, nBits, params)
    /\ UNCHANGED <<params, index, g_asert_anchor>>
    /\ UNCHANGED <<active, resetPending, threads>>

\* a reset that leaves the cached anchor in place
ResetASERTAnchorCache_KeepsAnchor ==
    /\ call = NoCall
    /\ g_asert_anchor # 0 \/ resetPending
    /\ resetPending' = FALSE
    /\ UNCHANGED <<params, index, g_asert_anchor, call, ret, active, threads>>

ResetASERTAnchorCache ==
    /\ call = NoCall
    /\ g_asert_anchor # 0 \/ resetPending
    /\ g_asert_anchor' = 0
    /\ resetPending' = FALSE
    /\ UNCHANGED <<params, index, call, ret, active, threads>>

\* a failed assert() in a retargeter has ended the process
Aborted == call.op \notin {"none", "CheckProofOfWork"} /\ ret = AssertFail

\* the caller takes the result
Return ==
    /\ call # NoCall
    /\ ~Aborted
    /\ call' = NoCall
    /\ ret' = NoRet
    /\ UNCHANGED <<params, index, g_asert_anchor>>
    /\ UNCHANGED <<active, resetPending, threads>>

Next ==
    \/ \E t \in DOMAIN index, late \in BOOLEAN : CallGetNextWorkRequired(t, late)
    \/ \E t \in DOMAIN index, late \in BOOLEAN : CallGetNextWorkRequiredBTC(t, late)
    \/ \E t \in DOMAIN index : CallGetNextWorkRequiredLWMA(t)
    \/ \E t \in DOMAIN index : CallGetNextWorkRequiredLWMAv2(t)
    \/ \E t \in DOMAIN index : CallGetNextWorkRequiredASERT(t)
    \/ ResetASERTAnchorCache
    \/ Return

Spec == Init /\ [][Next]_vars

---------------------------------------------------------------------------
(* CheckProofOfWork on hashes and claimed targets around the boundaries    *)

InitPoW ==
    /\ params \in ParamSet
    /\ index = ChainOf("sched", "limit", params)
    /\ g_asert_anchor \in {0, params.nASERTHeight + 1}
    /\ call = NoCall
    /\ ret = NoRet
    /\ active = Len(index)
    /\ resetPending = FALSE
    /\ threads = <<>>

NextPoW ==
    \/ \E hash \in HashSet, nBits \in BitsSet : CallCheckProofOfWork(hash, nBits)
    \/ Return

SpecPoW == InitPoW /\ [][NextPoW]_vars

---------------------------------------------------------------------------
(* The exponent-to-target part of ASERT (lines 330-395) on exponents over  *)
(* the whole signed 64-bit range.  Left out are the exponents on which the *)
(* C++ negates or decrements the int32 value -2^31, which is undefined.    *)

\* integer parts of |exponent_fp| / 65536 from 0 up to 2^47 - 1
ExponentHigh ==
    {<<>>, <<1>>, <<2>>, <<100>>, <<255>>, <<0, 1>>, <<1, 1>>, <<0, 0, 1>>,
     <<254, 255, 255, 127>>, <<56, 255, 255, 255>>, <<0, 0, 0, 0, 1>>,
     <<5, 0, 0, 0, 1>>, <<255, 255, 255, 255, 255, 127>>}

\* fractional parts
ExponentLow == {0, 1, 32768, 65535}

ExponentOf(neg, hi, lo) == Signed(neg, Add(ShlBytes(hi, 2), FromInt(lo)))

ExponentSet == {ExponentOf(neg, hi, lo) : neg \in BOOLEAN, hi \in ExponentHigh,
                                          lo \in ExponentLow}

InitExp ==
    /\ params \in ParamSet
    /\ index = ChainOf("sched", "limit", params)
    /\ g_asert_anchor = 0
    /\ call = NoCall
    /\ ret = NoRet
    /\ active = Len(index)
    /\ resetPending = FALSE
    /\ threads = <<>>

CallASERTFromExponent(exponent) ==
    /\ call = NoCall
    /\ call' = [op |-> "ASERTFromExponent", exponent |-> exponent]
    /\ ret' = ASERTFromExponent(exponent, SetCompact(params.nASERTAnchorBits).target,
                                params.powLimit)
    /\ UNCHANGED <<params, index, g_asert_anchor>>
    /\ UNCHANGED <<active, resetPending, threads>>

NextExp ==
    \/ \E e \in ExponentSet : CallASERTFromExponent(e)
    \/ Return

SpecExp == InitExp /\ [][NextExp]_vars
---------------------------------------------------------------------------
(* Properties                                                              *)

RetargetOps == {"GetNextWorkRequired", "GetNextWorkRequiredBTC",
                "GetNextWorkRequiredLWMA", "GetNextWorkRequiredLWMAv2",
                "GetNextWorkRequiredASERT"}

Tip == index[call.pindexLast]
NextHeight == Tip.nHeight + 1

\* the retargeter a finished call went through
Alg ==
    CASE call.op = "GetNextWorkRequiredBTC" -> "BTC"
      [] call.op = "GetNextWorkRequiredLWMA" -> "LWMA"
      [] call.op = "GetNextWorkRequiredLWMAv2" -> "LWMAv2"
      [] call.op = "GetNextWorkRequiredASERT" -> "ASERT"
      [] call.op = "GetNextWorkRequired" ->
            IF NextHeight > params.nASERTHeight THEN "ASERT"
            ELSE IF NextHeight >= params.nLWMAFixHeight THEN "LWMAv2"
            ELSE IF NextHeight >= params.nLWMAHeight THEN "LWMA"
            ELSE "BTC"
      [] OTHER -> "none"

\* the ancestor of block p at height h (0 when there is none)
RECURSIVE AncestorAt(_, _, _)
AncestorAt(idx, p, h) ==
    IF p = 0 THEN 0
    ELSE IF idx[p].nHeight = h THEN p
    ELSE IF idx[p].nHeight < h THEN 0
    ELSE AncestorAt(idx, idx[p].pprev, h)

\* the last n parent-child solvetimes ending at block p all exist and equal T
RECURSIVE SolvetimesAll(_, _, _, _)
SolvetimesAll(idx, p, n, T) ==
    \/ n <= 0
    \/ /\ idx[p].pprev # 0
       /\ idx[p].nTime - idx[idx[p].pprev].nTime = T
       /\ SolvetimesAll(idx, idx[p].pprev, n - 1, T)

\* min(lwma_window, (tip.height + 1) - lwma_height) of the finished call
Blocks == Min(params.nLWMAWindow, NextHeight - params.nLWMAHeight)

\* C1: get_next_work returns the value of ASERT if h > asert_height, else of
\* LWMA v2 if h >= lwma_fix_height, else of LWMA v1 if h >= lwma_height, else of
\* the BTC retargeter, each called with the same arguments
C1_DispatchByHeight ==
    call.op = "GetNextWorkRequired" =>
        ret = (IF NextHeight > params.nASERTHeight
               THEN GetNextWorkRequiredASERT(index, call.pindexLast, params,
                                             call.anchor).ret
               ELSE IF NextHeight >= params.nLWMAFixHeight
               THEN GetNextWorkRequiredLWMAv2(index, call.pindexLast, params)
               ELSE IF NextHeight >= params.nLWMAHeight
               THEN GetNextWorkRequiredLWMA(index, call.pindexLast, params)
               ELSE GetNextWorkRequiredBTC(index, call.pindexLast, call.blockTime,
                                           params))

\* a dispatch at exactly lwma_fix_height whose result LWMA v1 would not give
C1_Witness ==
    /\ call.op = "GetNextWorkRequired"
    /\ NextHeight = params.nLWMAFixHeight
    /\ NextHeight <= params.nASERTHeight
    /\ ret = GetNextWorkRequiredLWMAv2(index, call.pindexLast, params)
    /\ ret # GetNextWorkRequiredLWMA(index, call.pindexLast, params)

\* C2: on a well-formed chain whose blocks carry targets in [1, pow_limit] the
\* value returned by get_next_work decodes, without negative or overflow flag,
\* to a target t with 1 <= t <= pow_limit
C2_ResultInRange ==
    call.op = "GetNextWorkRequired" =>
        /\ ret # AssertFail
        /\ ret # UintError
        /\ ~SetCompact(ret).fNegative
        /\ ~SetCompact(ret).fOverflow
        /\ SetCompact(ret).target # <<>>
        /\ Leq(SetCompact(ret).target, params.powLimit)

\* C3: with no_retargeting set get_next_work returns tip.compact_bits at every
\* height, whatever the header time and the other parameters
C3_NoRetargetingKeepsBits ==
    (call.op = "GetNextWorkRequired" /\ params.fPowNoRetargeting) =>
        ret = Tip.nBits

\* C4: check_pow is true exactly when claimed_bits decodes without negative or
\* overflow flag to a target t with t # 0, t <= pow_limit and hash <= t; it
\* always answers with a boolean
C4_CheckProofOfWorkIff ==
    call.op = "CheckProofOfWork" =>
        LET c == SetCompact(call.nBits)
        IN  /\ ret \in BOOLEAN
            /\ ret <=> (/\ ~c.fNegative
                        /\ ~c.fOverflow
                        /\ c.target # <<>>
                        /\ Leq(c.target, params.powLimit)
                        /\ Leq(call.hash, c.target))

\* a hash equal to a valid target is accepted
C4_Witness ==
    /\ call.op = "CheckProofOfWork"
    /\ call.hash = SetCompact(call.nBits).target
    /\ call.hash # <<>>
    /\ ret = TRUE

\* C5 as stated: check_pow(h, encode(pow_limit)) is true iff h <= pow_limit
C5_AcceptsIffBelowPowLimit ==
    (call.op = "CheckProofOfWork" /\ call.nBits = GetCompact(params.powLimit)) =>
        (ret <=> Leq(call.hash, params.powLimit))

\* C5 amended: check_pow(h, encode(pow_limit)) is true iff
\* h <= decode(encode(pow_limit)), the pow_limit cut to its three leading bytes
C5_AcceptsIffBelowEncodedPowLimit ==
    (call.op = "CheckProofOfWork" /\ call.nBits = GetCompact(params.powLimit)) =>
        (ret <=> Leq(call.hash, SetCompact(GetCompact(params.powLimit)).target))

\* the hash pow_limit itself is refused where encoding loses low bytes
C5_Witness ==
    /\ call.op = "CheckProofOfWork"
    /\ call.nBits = GetCompact(params.powLimit)
    /\ call.hash = params.powLimit
    /\ SetCompact(call.nBits).target # params.powLimit
    /\ ret = FALSE

C7_OnScheduleKeepsTipBits ==
    (/\ call.op \in RetargetOps
     /\ Alg = "LWMA"
     /\ Blocks >= 3
     /\ SolvetimesAll(index, call.pindexLast, Blocks, params.nPowTargetSpacing)) =>
        ret = Tip.nBits

\* an on-schedule window, retargeting on, after an off-schedule start of the chain
C7_Witness ==
    /\ call.op \in RetargetOps
    /\ Alg = "LWMA"
    /\ ~params.fPowNoRetargeting
    /\ Blocks >= 3
    /\ SolvetimesAll(index, call.pindexLast, Blocks, params.nPowTargetSpacing)
    /\ ~SolvetimesAll(index, call.pindexLast, Tip.nHeight, params.nPowTargetSpacing)
    /\ ret = Tip.nBits

\* the block `Blocks` parents before the tip, or the block without parent
\* when the chain is shorter
WindowStartBlock ==
    AncestorAt(index, call.pindexLast,
               IF Tip.nHeight > Blocks THEN Tip.nHeight - Blocks ELSE 0)

\* compact targets to put in place of a block's own
AltBits == {504365040, 487587824, 16842752}

\* the result of LWMA v2 is the same whatever bits the tip and the other blocks
\* after the window start carry, and equals the window-start bits when every
\* solvetime of the window is T
WindowStartReference ==
    /\ \A h \in (index[WindowStartBlock].nHeight + 1)..Tip.nHeight :
         \A b \in AltBits :
            LET j == AncestorAt(index, call.pindexLast, h)
            IN  GetNextWorkRequiredLWMAv2([index EXCEPT ![j].nBits = b],
                                          call.pindexLast, params) = ret
    /\ SolvetimesAll(index, call.pindexLast, Blocks, params.nPowTargetSpacing)
            => ret = index[WindowStartBlock].nBits

\* C8 as stated: LWMA v2 takes its reference target from the block `blocks`
\* parents before the tip, not from the tip
C8_WindowStartReference ==
    (call.op \in RetargetOps /\ Alg = "LWMAv2") => WindowStartReference

\* C8 amended: the same, when no_retargeting is unset and blocks >= 3
C8_WindowStartReferenceFromThree ==
    (/\ call.op \in RetargetOps
     /\ Alg = "LWMAv2"
     /\ ~params.fPowNoRetargeting
     /\ Blocks >= 3) => WindowStartReference

\* an on-schedule window whose start carries other bits than the tip
C8_Witness ==
    /\ call.op \in RetargetOps
    /\ Alg = "LWMAv2"
    /\ ~params.fPowNoRetargeting
    /\ Blocks >= 3
    /\ SolvetimesAll(index, call.pindexLast, Blocks, params.nPowTargetSpacing)
    /\ index[WindowStartBlock].nBits # Tip.nBits
    /\ ret = index[WindowStartBlock].nBits

\* tip.time - anchor.parent.time = T * ((tip.height + 1) - asert_height)
OnASERTSchedule ==
    LET parent == AncestorAt(index, call.pindexLast, params.nASERTHeight - 1)
    IN  /\ parent # 0
        /\ Tip.nTime - index[parent].nTime
              = params.nPowTargetSpacing * (NextHeight - params.nASERTHeight)

\* C9: ASERT at a next height > asert_height, no_retargeting unset, on a chain
\* exactly on schedule since the anchor's parent returns asert_anchor_bits
C9_OnScheduleReturnsAnchorBits ==
    (/\ call.op \in RetargetOps
     /\ Alg = "ASERT"
     /\ NextHeight > params.nASERTHeight
     /\ ~params.fPowNoRetargeting
     /\ OnASERTSchedule) => ret = params.nASERTAnchorBits

\* on schedule since the anchor's parent but not before it, and the tip's own
\* bits differ from the anchor bits
C9_Witness ==
    /\ call.op \in RetargetOps
    /\ Alg = "ASERT"
    /\ NextHeight > params.nASERTHeight + 1
    /\ ~params.fPowNoRetargeting
    /\ OnASERTSchedule
    /\ ~SolvetimesAll(index, call.pindexLast, Tip.nHeight, params.nPowTargetSpacing)
    /\ Tip.nBits # params.nASERTAnchorBits
    /\ ret = params.nASERTAnchorBits

\* floor(exponent_fp / 65536) >= 256, and <= -256
FloorShiftsAtLeast256(e) == ~e.neg /\ Leq(<<0, 1>>, ShrBytes(e.mag, 2))
FloorShiftsAtMostMinus256(e) ==
    e.neg /\ Leq(<<0, 1>>, Add(ShrBytes(e.mag, 2),
                               IF Lo(e.mag, 2) = <<>> THEN <<>> ELSE <<1>>))

\* C10: for every exponent_fp of signed 64 bits, floor(exponent_fp / 65536) >= 256
\* gives encode(pow_limit) and floor(exponent_fp / 65536) <= -256 gives the
\* compact encoding of 1
C10_ShiftSaturation ==
    call.op = "ASERTFromExponent" =>
        /\ FloorShiftsAtLeast256(call.exponent) => ret = GetCompact(params.powLimit)
        /\ FloorShiftsAtMostMinus256(call.exponent) => ret = GetCompact(<<1>>)

---------------------------------------------------------------------------
(* CalculateNextWorkRequired called directly on a single block with a      *)
(* first-block time of the caller's choice, as the unit tests do           *)

\* the main network's retarget window of 3.5 days, the value under which the
\* expected results of the unit tests come out
MainParams == [BtcParams EXCEPT !.nPowTargetTimespan = 302400]

CalcParamSet == {MainParams, BtcParams, RegtestParams}

\* the blocks of the four unit tests and blocks at the ends of the target range
CalcTips ==
    {[nHeight |-> 280223,  nTime |-> 1358378777, nBits |-> 470466881, pprev |-> 0],
     [nHeight |-> 2015,    nTime |-> 1318480354, nBits |-> 504365040, pprev |-> 0],
     [nHeight |-> 578591,  nTime |-> 1401757934, nBits |-> 453467377, pprev |-> 0],
     [nHeight |-> 1001951, nTime |-> 1464900315, nBits |-> 453071640, pprev |-> 0],
     [nHeight |-> 2015,    nTime |-> 1318480354, nBits |-> 504365055, pprev |-> 0],
     [nHeight |-> 2015,    nTime |-> 1318480354, nBits |-> 16842752,  pprev |-> 0],
     [nHeight |-> 2015,    nTime |-> 1318480354, nBits |-> 545259519, pprev |-> 0]}

\* tip.time - first_time: negative, zero, around both limits, in between
CalcActuals(span) ==
    {0 - span, -1, 0, 1, span \div 4 - 1, span \div 4, span \div 4 + 1, span,
     span * 4 - 1, span * 4, span * 4 + 1, span * 8}

\* the first-block times of the unit tests
CalcTestFirstTimes == {1358118740, 1317972665, 1401682934, 1463690315}

InitCalc ==
    /\ params \in CalcParamSet
    /\ \E tip \in CalcTips : index = <<tip>>
    /\ g_asert_anchor = 0
    /\ call = NoCall
    /\ ret = NoRet
    /\ active = Len(index)
    /\ resetPending = FALSE
    /\ threads = <<>>

CallCalculateNextWorkRequired(pindexLast, nFirstBlockTime) ==
    /\ call = NoCall
    /\ call' = [op |-> "CalculateNextWorkRequired", pindexLast |-> pindexLast,
                nFirstBlockTime |-> nFirstBlockTime]
    /\ ret' = CalculateNextWorkRequired(index, pindexLast, nFirstBlockTime, params)
    /\ UNCHANGED <<params, index, g_asert_anchor>>
    /\ UNCHANGED <<active, resetPending, threads>>

NextCalc ==
    \/ \E t \in DOMAIN index :
         \E first \in {index[t].nTime - a : a \in CalcActuals(params.nPowTargetTimespan)}
                        \cup CalcTestFirstTimes :
             CallCalculateNextWorkRequired(t, first)
    \/ Return

SpecCalc == InitCalc /\ [][NextCalc]_vars

\* the call in progress is a BTC retarget that does retarget
CalcRetargets == call.op = "CalculateNextWorkRequired" /\ ~params.fPowNoRetargeting

\* tip.time - first_time of the call in progress
CalcActual == index[call.pindexLast].nTime - call.nFirstBlockTime

\* the result of the retarget with the given timespan taken as it is
CalcWithTimespan(nActualTimespan) ==
    GetCompact(ClampToPowLimit(
        Retarget(SetCompact(index[call.pindexLast].nBits).target, nActualTimespan,
                 params.nPowTargetTimespan, params.powLimit),
        params.powLimit))

\* C11: in CalculateNextWorkRequired with no_retargeting unset, every
\* first_time that gives tip.time - first_time < timespan/4 (negative ones
\* included) yields the result of an actual timespan of exactly timespan/4,
\* and every first_time that gives more than timespan*4 yields the result of
\* exactly timespan*4.
C11_ActualTimespanClamped ==
    CalcRetargets =>
        /\ CalcActual < params.nPowTargetTimespan \div 4
             => ret = CalcWithTimespan(params.nPowTargetTimespan \div 4)
        /\ CalcActual > params.nPowTargetTimespan * 4
             => ret = CalcWithTimespan(params.nPowTargetTimespan * 4)

\* a retarget with a negative actual timespan has returned a target that
\* differs from the tip's
C11_Witness ==
    /\ CalcRetargets
    /\ CalcActual < 0
    /\ ret # index[call.pindexLast].nBits
    /\ ret = CalcWithTimespan(params.nPowTargetTimespan \div 4)

\* old * a / timespan in unbounded arithmetic, halved and doubled around the
\* multiplication when old has at least as many bits as the limit
ExactRetarget(old, a, timespan, powLimit) ==
    IF Bits(old) < Bits(powLimit)
    THEN Div(Times(old, a), FromInt(timespan))
    ELSE Times(Div(Times(Shr(old, 1), a), FromInt(timespan)), 2)

\* the actual timespan of the call in progress after the clamp
CalcClamped ==
    IF CalcActual < params.nPowTargetTimespan \div 4 THEN params.nPowTargetTimespan \div 4
    ELSE IF CalcActual > params.nPowTargetTimespan * 4 THEN params.nPowTargetTimespan * 4
    ELSE CalcActual

CalcIsTest(nTime, nBits, nFirstBlockTime) ==
    /\ call.op = "CalculateNextWorkRequired"
    /\ params = MainParams
    /\ index[call.pindexLast].nTime = nTime
    /\ index[call.pindexLast].nBits = nBits
    /\ call.nFirstBlockTime = nFirstBlockTime

\* C12: with no_retargeting unset and old = decode(tip.bits) <= pow_limit,
\* CalculateNextWorkRequired returns encode(min(pow_limit, new)) with
\* new = floor(old * a / timespan) when old has fewer bits than pow_limit and
\* new = 2 * floor(floor(old / 2) * a / timespan) otherwise, the product being
\* exact; bits 0x1c0ac141 with times 1358378777 / 1358118740 gives 0x1c093f8d
\* and bits 0x1e0ffff0 with times 1318480354 / 1317972665 gives 0x1e0fffff
\* under the main network's parameters.
C12_RetargetFormula ==
    /\ (/\ CalcRetargets
        /\ Leq(SetCompact(index[call.pindexLast].nBits).target, params.powLimit))
         => ret = GetCompact(ClampToPowLimit(
                      ExactRetarget(SetCompact(index[call.pindexLast].nBits).target,
                                    CalcClamped, params.nPowTargetTimespan,
                                    params.powLimit),
                      params.powLimit))
    /\ CalcIsTest(1358378777, 470466881, 1358118740) => ret = 470368141
    /\ CalcIsTest(1318480354, 504365040, 1317972665) => ret = 504365055

\* the second vector: a target as wide as the limit, retargeted past it
C12_Witness ==
    /\ CalcIsTest(1318480354, 504365040, 1317972665)
    /\ Bits(SetCompact(index[call.pindexLast].nBits).target) = Bits(params.powLimit)
    /\ ret = 504365055

---------------------------------------------------------------------------
(* LWMA v1 and v2 on extremely fast chains (every block one second after   *)
(* its parent, or at the same second), for several spacings and windows    *)

CapSpacings == {1, 11, 150, 151}
CapWindows == {3, 4, 10}
\* targets from 1 up to the limit
CapBits == {504365055, 504365040, 487587824, 453467377, 16842752, 16845056}
CapSolvetimes == {0, 1}

\* activation heights as set by the unit test of the cap
CapParams(T, N) ==
    [LwmaParams EXCEPT !.nPowTargetSpacing = T, !.nPowTargetTimespan = 2 * T,
                       !.nLWMAWindow = N, !.nLWMAHeight = 100,
                       !.nLWMAFixHeight = 150, !.nASERTHeight = 1000]

\* N + 5 blocks from height lwma_fix_height on; the blocks up to the start of
\* the last window carry refBits, the later ones lateBits
CapChain(N, solvetime, refBits, lateBits) ==
    [i \in 1..(N + 5) |->
        [nHeight |-> 150 + (i - 1),
         nTime   |-> 1394325760 + (i - 1) * solvetime,
         nBits   |-> IF i <= 5 THEN refBits ELSE lateBits,
         pprev   |-> i - 1]]

InitCap ==
    /\ \E T \in CapSpacings, N \in CapWindows :
         /\ params = CapParams(T, N)
         /\ \E s \in CapSolvetimes, refBits \in CapBits :
              \E lateBits \in {refBits, 487587824} :
                  index = CapChain(N, s, refBits, lateBits)
    /\ g_asert_anchor = 0
    /\ call = NoCall
    /\ ret = NoRet
    /\ active = Len(index)
    /\ resetPending = FALSE
    /\ threads = <<>>

NextCap ==
    \/ CallGetNextWorkRequiredLWMA(Len(index))
    \/ CallGetNextWorkRequiredLWMAv2(Len(index))
    \/ Return

SpecCap == InitCap /\ [][NextCap]_vars

\* decode(bits)
Decode(nBits) == SetCompact(nBits).target

\* sum_w * T of the call in progress
CapExpected ==
    WeightedSolvetimes(index, call.pindexLast,
                       LWMABlocks(index, call.pindexLast, params),
                       params.nPowTargetSpacing, 0, 0)[2] * params.nPowTargetSpacing

\* the reference target of the call in progress: the tip's for LWMA v1, the
\* window-start block's for LWMA v2
CapReference ==
    IF call.op = "GetNextWorkRequiredLWMA"
    THEN Decode(index[call.pindexLast].nBits)
    ELSE Decode(index[WindowStart(index, call.pindexLast,
                                  LWMABlocks(index, call.pindexLast, params))].nBits)

CapFactor == IF call.op = "GetNextWorkRequiredLWMA" THEN 10 ELSE 3

CapCall == call.op \in {"GetNextWorkRequiredLWMA", "GetNextWorkRequiredLWMAv2"}

---------------------------------------------------------------------------
(* A block index with two branches: the chain of ChainOf and a side branch *)
(* that leaves it after height f and has its own block times.  Headers are *)
(* validated on every branch of the index, so GetNextWorkRequired is       *)
(* called on any block of it.                                              *)

ForkHeights == {3, 4, 5, 6}
SideTimePatterns == {"fast", "slow"}

\* time of the side-branch block at height h >= f
RECURSIVE SideTimeAt(_, _, _, _, _)
SideTimeAt(tp, stp, f, h, T) ==
    IF h <= f THEN TimeAt(tp, f, T)
    ELSE SideTimeAt(tp, stp, f, h - 1, T) + Solvetime(stp, h, T)

\* entries 1..MaxHeight+1 are the main chain, the following ones the side
\* branch at heights f+1..MaxHeight
ForkIndex(tp, stp, bp, f, chainParams) ==
    [i \in 1..(2 * MaxHeight + 1 - f) |->
        IF i <= MaxHeight + 1 THEN ChainOf(tp, bp, chainParams)[i]
        ELSE [nHeight |-> f + (i - (MaxHeight + 1)),
              nTime   |-> SideTimeAt(tp, stp, f, f + (i - (MaxHeight + 1)),
                                     chainParams.nPowTargetSpacing),
              nBits   |-> BitsAt(bp, f + (i - (MaxHeight + 1)), chainParams),
              pprev   |-> IF i = MaxHeight + 2 THEN f + 1 ELSE i - 1]]

InitFork ==
    /\ params \in ParamSet
    /\ \E tp \in TimePatterns, stp \in SideTimePatterns, f \in ForkHeights,
          bp \in {"mid", "split"} :
         /\ stp # tp
         /\ index = ForkIndex(tp, stp, bp, f, params)
    /\ g_asert_anchor = 0
    /\ call = NoCall
    /\ ret = NoRet
    /\ active = MaxHeight + 1
    /\ resetPending = FALSE
    /\ threads = <<>>

NextFork ==
    \/ \E t \in DOMAIN index, late \in BOOLEAN : CallGetNextWorkRequired(t, late)
    \/ ResetASERTAnchorCache
    \/ Return

SpecFork == InitFork /\ [][NextFork]_vars

\* C14: GetNextWorkRequired is a pure function of the tip with its ancestry,
\* the header time and the parameters: after any earlier calls on any blocks
\* of any branch and any resets of the anchor cache, a call returns what the
\* same call returns with an empty anchor cache.
C14_PureFunction ==
    call.op = "GetNextWorkRequired"
        => ret = GetNextWorkRequired(index, call.pindexLast, call.blockTime,
                                     params, 0).ret

---------------------------------------------------------------------------
(* Reorganisations of the active chain within the two-branch index.  The   *)
(* caller of this code switches the active tip and owes a                  *)
(* ResetASERTAnchorCache() whenever a block below nASERTHeight has left    *)
(* the active chain; it makes no ASERT call before that reset.             *)

\* block b is on the chain that ends in tip
OnChain(b, tip) == AncestorAt(index, tip, index[b].nHeight) = b

\* going from tip `from` to tip `to` takes a block below nASERTHeight out of
\* the active chain
ReplacesBelowAnchor(from, to) ==
    \E b \in DOMAIN index :
        /\ index[b].nHeight < params.nASERTHeight
        /\ OnChain(b, from)
        /\ ~OnChain(b, to)

Reorg(to) ==
    /\ call = NoCall
    /\ to # active
    /\ active' = to
    /\ resetPending' = (resetPending \/ ReplacesBelowAnchor(active, to))
    /\ UNCHANGED <<params, index, g_asert_anchor, call, ret, threads>>

\* GetNextWorkRequiredASERT for the block after the active tip, which the
\* dispatcher hands over from height nASERTHeight + 1 on
CallASERTOnActiveTip ==
    /\ ~resetPending
    /\ index[active].nHeight >= params.nASERTHeight
    /\ CallGetNextWorkRequiredASERT(active)

NextReorg ==
    \/ CallASERTOnActiveTip
    \/ \E to \in DOMAIN index : Reorg(to)
    \/ ResetASERTAnchorCache
    \/ Return

SpecReorg == InitFork /\ [][NextReorg]_vars

\* the ASERT result computed from the tip's own ancestor at nASERTHeight
ASERTFromOwnAnchor(pindexLast) ==
    GetNextWorkRequiredASERT(index, pindexLast, params,
                             AncestorAt(index, pindexLast, params.nASERTHeight)).ret

\* C15: when every reorg that replaces a block below asert_height is followed
\* by a reset of the anchor cache before the next ASERT call, every ASERT
\* call on the active tip returns the value computed from the tip's own
\* ancestor at height asert_height, also after reorgs that replace only
\* blocks at heights >= asert_height without a reset.
C15_ValueFromOwnAnchor ==
    call.op = "GetNextWorkRequiredASERT" => ret = ASERTFromOwnAnchor(call.pindexLast)

\* an ASERT call that found another branch's block at nASERTHeight in the
\* cache, left there by a reorg that needed no reset
C15_Witness ==
    /\ call.op = "GetNextWorkRequiredASERT"
    /\ ~params.fPowNoRetargeting
    /\ call.anchor # 0
    /\ call.anchor # AncestorAt(index, call.pindexLast, params.nASERTHeight)
    /\ ret = ASERTFromOwnAnchor(call.pindexLast)
    /\ ret # AssertFail

---------------------------------------------------------------------------
(* Concurrent calls of GetNextWorkRequiredASERT on blocks of one chain.    *)
(* g_asert_anchor is a plain global pointer read and written without a     *)
(* lock (lines 277 and 290); a read that races a write returns the pointer *)
(* stored before or after it, so the steps below interleave freely.        *)

MaxThreads == 2

\* the blocks from which the dispatcher hands over to ASERT
ASERTTips == {t \in DOMAIN index : index[t].nHeight >= params.nASERTHeight}

InitConc ==
    /\ params \in ParamSet
    /\ \E tp \in TimePatterns : index = ChainOf(tp, "mid", params)
    /\ g_asert_anchor = 0
    /\ call = NoCall
    /\ ret = NoRet
    /\ active = Len(index)
    /\ resetPending = FALSE
    /\ threads \in [1..MaxThreads ->
                      {[pc |-> "read", pindexLast |-> t, pindex |-> 0,
                        fromCache |-> FALSE, ret |-> NoRet] : t \in ASERTTips}]

\* lines 301-302 and 277-279: the no-retargeting return, else the read of the
\* cache and the return of a cached anchor
ASERTReadCache(i) ==
    /\ threads[i].pc = "read"
    /\ threads' = [threads EXCEPT ![i] =
          IF params.fPowNoRetargeting
          THEN [@ EXCEPT !.pc = "done",
                         !.ret = index[threads[i].pindexLast].nBits]
          ELSE [@ EXCEPT !.pindex = g_asert_anchor,
                         !.fromCache = (g_asert_anchor # 0),
                         !.pc = IF g_asert_anchor # 0 THEN "compute" ELSE "walk"]]
    /\ UNCHANGED <<params, index, g_asert_anchor, call, ret, active, resetPending>>

\* lines 282-288: the walk to the block at nASERTHeight
ASERTWalk(i) ==
    /\ threads[i].pc = "walk"
    /\ \E found \in {WalkToAnchor(index, threads[i].pindexLast, params.nASERTHeight)} :
         threads' = [threads EXCEPT ![i] =
            IF found = AssertFail
            THEN [@ EXCEPT !.pc = "aborted", !.ret = AssertFail]
            ELSE [@ EXCEPT !.pc = "write", !.pindex = found]]
    /\ UNCHANGED <<params, index, g_asert_anchor, call, ret, active, resetPending>>

\* the write of line 290 storing the tip instead of the anchor
ASERTWriteCache_Tip(i) ==
    /\ threads[i].pc = "write"
    /\ g_asert_anchor' = threads[i].pindexLast
    /\ threads' = [threads EXCEPT ![i].pc = "compute"]
    /\ UNCHANGED <<params, index, call, ret, active, resetPending>>

\* line 290: g_asert_anchor = pindex
ASERTWriteCache(i) ==
    /\ threads[i].pc = "write"
    /\ g_asert_anchor' = threads[i].pindex
    /\ threads' = [threads EXCEPT ![i].pc = "compute"]
    /\ UNCHANGED <<params, index, call, ret, active, resetPending>>

\* lines 305-395: the target from the anchor this call has got
ASERTCompute(i) ==
    /\ threads[i].pc = "compute"
    /\ threads' = [threads EXCEPT ![i] =
          [@ EXCEPT !.pc = "done",
                    !.ret = GetNextWorkRequiredASERT(index, threads[i].pindexLast,
                                                     params, threads[i].pindex).ret]]
    /\ UNCHANGED <<params, index, g_asert_anchor, call, ret, active, resetPending>>

NextConc ==
    \/ \E i \in DOMAIN threads : ASERTReadCache(i)
    \/ \E i \in DOMAIN threads : ASERTWalk(i)
    \/ \E i \in DOMAIN threads : ASERTWriteCache(i)
    \/ \E i \in DOMAIN threads : ASERTCompute(i)

SpecConc == InitConc /\ [][NextConc]_vars

AllDone == threads # <<>> /\ \A i \in DOMAIN threads : threads[i].pc = "done"

\* every finished call has returned what it returns when run alone from an
\* empty cache
SameAsAlone ==
    \A i \in DOMAIN threads :
        threads[i].pc = "done"
            => threads[i].ret = GetNextWorkRequiredASERT(index, threads[i].pindexLast,
                                                         params, 0).ret

\* the cache holds the block at nASERTHeight of the chain
CacheHoldsAnchor ==
    g_asert_anchor = AncestorAt(index, Len(index), params.nASERTHeight)

\* C16 as stated: concurrent ASERT calls on tips of one chain, started with
\* an empty cache, each return under every interleaving what they return
\* when run alone, and in the end the cache holds the block at asert_height.
C16_ConcurrentCalls ==
    /\ SameAsAlone
    /\ AllDone => CacheHoldsAnchor

\* C16, amended: the same with no_retargeting unset; with no_retargeting set
\* the calls return the tip's bits and leave the cache empty.
C16_ConcurrentCallsRetargeting ==
    /\ SameAsAlone
    /\ (AllDone /\ ~params.fPowNoRetargeting) => CacheHoldsAnchor
    /\ (AllDone /\ params.fPowNoRetargeting) => g_asert_anchor = 0

\* two calls on different tips have both missed the cache, walked and
\* written, and have finished
C16_Witness ==
    /\ AllDone
    /\ ~params.fPowNoRetargeting
    /\ \A i \in DOMAIN threads : ~threads[i].fromCache
    /\ threads[1].pindexLast # threads[2].pindexLast
    /\ CacheHoldsAnchor
    /\ SameAsAlone

---------------------------------------------------------------------------
(* The decomposition of the exponent (lines 332-350)                       *)

\* shifts * 65536 + frac as a signed value, for 0 <= frac < 65536
ShiftsAndFrac(shifts, frac) ==
    IF shifts >= 0
    THEN Signed(FALSE, Add(ShlBytes(FromInt(shifts), 2), FromInt(frac)))
    ELSE Signed(TRUE, Sub(ShlBytes(FromInt(0 - shifts), 2), FromInt(frac)))

\* C17: for every exponent_fp of signed 64 bits the decomposition gives
\* 0 <= frac < 65536 and shifts * 65536 + frac = exponent_fp, so that shifts
\* is the floor of exponent_fp / 65536 for negative exponents too.
C17_DecompositionExact ==
    call.op = "ASERTFromExponent" =>
        /\ ASERTDecompose(call.exponent)[2] >= 0
        /\ ASERTDecompose(call.exponent)[2] < 65536
        /\ ShiftsAndFrac(ASERTDecompose(call.exponent)[1],
                         ASERTDecompose(call.exponent)[2]) = call.exponent

---------------------------------------------------------------------------
(* The BTC retargeter called directly, with retarget intervals of 2, 3 and *)
(* 4 blocks, on chains that start at height 0 and on index excerpts whose  *)
(* first block has a height above 0 and no parent (as the blocks the unit  *)
(* tests build)                                                            *)

BTCIntervals == {2, 3, 4}
BTCBaseHeights == {0, 1, 4}

BTCParams(k, allowMin, noRetargeting) ==
    [BtcParams EXCEPT !.nPowTargetTimespan = k * 150,
                      !.fPowAllowMinDifficultyBlocks = allowMin,
                      !.fPowNoRetargeting = noRetargeting]

\* MaxHeight + 1 blocks at heights base .. base + MaxHeight
ChainFrom(base, tp, bp, chainParams) ==
    [i \in 1..(MaxHeight + 1) |->
        [nHeight |-> base + (i - 1),
         nTime   |-> TimeAt(tp, i - 1, chainParams.nPowTargetSpacing),
         nBits   |-> BitsAt(bp, i - 1, chainParams),
         pprev   |-> i - 1]]

InitBTC ==
    /\ \E k \in BTCIntervals :
         \/ params = BTCParams(k, FALSE, FALSE)
         \/ params = BTCParams(k, TRUE, FALSE)
         \/ params = BTCParams(k, TRUE, TRUE)
    /\ \E base \in BTCBaseHeights, tp \in TimePatterns, bp \in BitsPatterns :
         index = ChainFrom(base, tp, bp, params)
    /\ g_asert_anchor = 0
    /\ call = NoCall
    /\ ret = NoRet
    /\ active = Len(index)
    /\ resetPending = FALSE
    /\ threads = <<>>

\* GetNextWorkRequiredBTC for a header `offset` seconds after the tip
CallGetNextWorkRequiredBTCAfter(pindexLast, offset) ==
    /\ call = NoCall
    /\ call' = [op |-> "GetNextWorkRequiredBTC", pindexLast |-> pindexLast,
                blockTime |-> index[pindexLast].nTime + offset,
                anchor |-> g_asert_anchor]
    /\ ret' = GetNextWorkRequiredBTC(index, pindexLast,
                                     index[pindexLast].nTime + offset, params)
    /\ UNCHANGED <<params, index, g_asert_anchor, active, resetPending, threads>>

NextBTC ==
    \/ \E t \in DOMAIN index :
         \E offset \in {params.nPowTargetSpacing, 2 * params.nPowTargetSpacing,
                        2 * params.nPowTargetSpacing + 1} :
             CallGetNextWorkRequiredBTCAfter(t, offset)
    \/ Return

SpecBTC == InitBTC /\ [][NextBTC]_vars

BTCCall == call.op = "GetNextWorkRequiredBTC"

\* the walk of the testnet rule stops at block b
StopsWalk(b) ==
    \/ index[b].pprev = 0
    \/ index[b].nHeight % DifficultyAdjustmentInterval(params) = 0
    \/ index[b].nBits # GetCompact(params.powLimit)

\* b is the nearest block on the path tip, tip.parent, ... that stops the walk
NearestStop(b, tip) ==
    /\ OnChain(b, tip)
    /\ StopsWalk(b)
    /\ \A c \in DOMAIN index :
          (OnChain(c, tip) /\ index[c].nHeight > index[b].nHeight) => ~StopsWalk(c)

\* C18: at a next height that is not a multiple of timespan/T, with
\* allow_min_difficulty_blocks set the BTC retargeter returns encode(pow_limit)
\* when header.time > tip.time + 2*T and otherwise the bits of the nearest
\* block on the path tip, tip.parent, ... that has no parent, or a height that
\* is a multiple of timespan/T, or bits other than encode(pow_limit) (such a
\* block exists, the walk ends); with the flag unset it returns tip.bits.
C18_TestnetException ==
    (BTCCall /\ NextHeight % DifficultyAdjustmentInterval(params) # 0) =>
        IF params.fPowAllowMinDifficultyBlocks
        THEN IF call.blockTime > Tip.nTime + 2 * params.nPowTargetSpacing
             THEN ret = GetCompact(params.powLimit)
             ELSE \E b \in DOMAIN index :
                     NearestStop(b, call.pindexLast) /\ ret = index[b].nBits
        ELSE ret = Tip.nBits

\* the walk has passed two min-difficulty blocks and returned the bits of a
\* block on a retarget boundary that is itself a min-difficulty block
C18_Witness ==
    /\ BTCCall
    /\ NextHeight % DifficultyAdjustmentInterval(params) # 0
    /\ params.fPowAllowMinDifficultyBlocks
    /\ call.blockTime = Tip.nTime + 2 * params.nPowTargetSpacing
    /\ \E b \in DOMAIN index :
          /\ NearestStop(b, call.pindexLast)
          /\ index[b].nHeight = Tip.nHeight - 2
          /\ index[b].pprev # 0
          /\ index[b].nBits = GetCompact(params.powLimit)
          /\ index[index[b].pprev].nBits # index[b].nBits
          /\ ret = index[b].nBits

\* parents to step back at a retarget boundary
BTCStepsBack ==
    IF NextHeight = DifficultyAdjustmentInterval(params)
    THEN DifficultyAdjustmentInterval(params) - 1
    ELSE DifficultyAdjustmentInterval(params)

\* the block that many parents behind the tip, 0 when the path ends before it
BTCFirstBlock == AncestorAt(index, call.pindexLast, Tip.nHeight - BTCStepsBack)

\* genesis at height 0 without parent, every other block's parent one lower
WellFormedChain ==
    \A b \in DOMAIN index :
        IF index[b].pprev = 0 THEN index[b].nHeight = 0
        ELSE index[index[b].pprev].nHeight = index[b].nHeight - 1

\* C19: at a retarget boundary (h a multiple of k = timespan/T) the first
\* block of the window is k-1 parents behind the tip when h = k and k parents
\* otherwise; the assertion fails exactly when that walk runs past a block
\* without parent, and never on a well-formed chain.
C19_FirstBlockWalk ==
    (BTCCall /\ NextHeight % DifficultyAdjustmentInterval(params) = 0) =>
        /\ (ret = AssertFail) <=> (BTCFirstBlock = 0)
        /\ BTCFirstBlock # 0
             => ret = CalculateNextWorkRequired(index, call.pindexLast,
                                                index[BTCFirstBlock].nTime, params)
        /\ WellFormedChain => ret # AssertFail

\* the first retarget of a well-formed chain: the window starts at the
\* genesis block, k-1 parents behind the tip, and the target has changed
C19_Witness ==
    /\ BTCCall
    /\ WellFormedChain
    /\ NextHeight = DifficultyAdjustmentInterval(params)
    /\ BTCFirstBlock # 0
    /\ index[BTCFirstBlock].pprev = 0
    /\ ret = CalculateNextWorkRequired(index, call.pindexLast,
                                       index[BTCFirstBlock].nTime, params)
    /\ ret # Tip.nBits

---------------------------------------------------------------------------
(* ASERT on chains whose tip is late: the tip's time is moved back by a    *)
(* number of half-lives                                                    *)

\* half-lives by which the tip is late
LateHalfLives == {0, 1, 2, 8, 19, 20, 28, 29, 48, 100, 255, 256}

LateChain(tp, n, chainParams) ==
    [ChainOf(tp, "mid", chainParams) EXCEPT
        ![MaxHeight + 1].nTime = @ + n * chainParams.nASERTHalfLife]

InitLate ==
    /\ params \in ParamSet
    /\ \E tp \in TimePatterns, n \in LateHalfLives : index = LateChain(tp, n, params)
    /\ g_asert_anchor = 0
    /\ call = NoCall
    /\ ret = NoRet
    /\ active = Len(index)
    /\ resetPending = FALSE
    /\ threads = <<>>

NextLate ==
    \/ CallGetNextWorkRequiredASERT(Len(index))
    \/ Return

SpecLate == InitLate /\ [][NextLate]_vars

\* the result of the call in progress had the tip been d seconds earlier
ASERTWithEarlierTip(d) ==
    GetNextWorkRequiredASERT([index EXCEPT ![call.pindexLast].nTime = @ - d],
                             call.pindexLast, params, 0).ret

\* time_delta >= T * height_delta
ASERTBehindSchedule ==
    Tip.nTime - index[AncestorAt(index, call.pindexLast, params.nASERTHeight - 1)].nTime
        >= params.nPowTargetSpacing * (NextHeight - params.nASERTHeight)

\* C20: with retargeting on, the decoded ASERT result does not decrease when
\* tip.time grows (params, anchor and tip height fixed), and when
\* time_delta >= T * height_delta it is at least min(anchor_target, pow_limit):
\* the left shift loses no high bits before the clamp to pow_limit.
C20_NeverHarderWhenLate ==
    (call.op = "GetNextWorkRequiredASERT" /\ ~params.fPowNoRetargeting) =>
        /\ ASERTBehindSchedule
             => Leq(ClampToPowLimit(Decode(params.nASERTAnchorBits), params.powLimit),
                    Decode(ret))
        /\ \A n \in LateHalfLives :
              Leq(Decode(ASERTWithEarlierTip(n * params.nASERTHalfLife)), Decode(ret))

---------------------------------------------------------------------------
(* The fractional factor of ASERT (lines 352-363) on every 16-bit frac     *)

\* the values of a uint16_t
FracRange == 0 .. 65535

InitFactor ==
    /\ params = BtcParams
    /\ index = ChainOf("sched", "limit", params)
    /\ g_asert_anchor = 0
    /\ call = NoCall
    /\ ret = NoRet
    /\ active = Len(index)
    /\ resetPending = FALSE
    /\ threads = <<>>

CallASERTFactor(frac) ==
    /\ call = NoCall
    /\ call' = [op |-> "ASERTFactor", frac |-> frac]
    /\ ret' = ASERTFactor(frac)
    /\ UNCHANGED <<params, index, g_asert_anchor>>
    /\ UNCHANGED <<active, resetPending, threads>>

NextFactor ==
    \/ call = NoCall /\ \E frac \in FracRange : CallASERTFactor(frac)
    \/ Return

SpecFactor == InitFactor /\ [][NextFactor]_vars

\* lines 358-362: the sum before the shift, without the 64-bit width
ASERTCubic(f) ==
    Add(Add(Add(MulInt(<<249, 208, 29, 108, 12, 178>>, f),
                MulInt(MulInt(<<64, 209, 236, 57>>, f), f)),
            MulInt(MulInt(MulInt(<<7, 20>>, f), f), f)),
        <<0, 0, 0, 0, 0, 128>>)

\* C21: for frac in 1..65535 the cubic sum stays below 2^64, the factor is
\* 65536 + (sum >> 48), lies in [65536, 131072) and does not decrease when
\* frac grows; for frac = 0 the factor is exactly 65536.
C21_FactorInRange ==
    call.op = "ASERTFactor" =>
        /\ call.frac = 0 => ret = 65536
        /\ call.frac > 0 =>
              /\ Len(ASERTCubic(call.frac)) <= 8
              /\ ret = 65536 + ToInt(Shr(ASERTCubic(call.frac), 48))
              /\ ASERTFactor(call.frac - 1) <= ret
        /\ ret >= 65536
        /\ ret < 131072

C21_Witness == call.op = "ASERTFactor" /\ call.frac = 65535 /\ ret = 131071

---------------------------------------------------------------------------
(* Every operation of the module on one process: the retargeters, the      *)
(* dispatcher, the cache reset and the proof-of-work check                 *)

\* hashes and claimed targets for the proof-of-work check
FrameHashes == {<<>>, SetCompact(487587824).target, [i \in 1..32 |-> 255]}
FrameBits == {487587824, 16842752, 0}

NextFrame ==
    \/ \E t \in DOMAIN index, late \in BOOLEAN : CallGetNextWorkRequired(t, late)
    \/ \E t \in DOMAIN index, late \in BOOLEAN : CallGetNextWorkRequiredBTC(t, late)
    \/ \E t \in DOMAIN index : CallGetNextWorkRequiredLWMA(t)
    \/ \E t \in DOMAIN index : CallGetNextWorkRequiredLWMAv2(t)
    \/ \E t \in DOMAIN index : CallGetNextWorkRequiredASERT(t)
    \/ \E hash \in FrameHashes, nBits \in FrameBits : CallCheckProofOfWork(hash, nBits)
    \/ ResetASERTAnchorCache
    \/ Return

SpecFrame == Init /\ [][NextFrame]_vars

\* the call runs GetNextWorkRequiredASERT: directly, or through the dispatcher
RunsASERT(c) ==
    \/ c.op = "GetNextWorkRequiredASERT"
    \/ /\ c.op = "GetNextWorkRequired"
       /\ index[c.pindexLast].nHeight + 1 > params.nASERTHeight

\* the call reaches the cache write of GetASERTAnchorBlock
FillsCache(c) ==
    /\ RunsASERT(c)
    /\ g_asert_anchor = 0
    /\ ~params.fPowNoRetargeting

FrameStep ==
    /\ params' = params
    /\ index' = index
    /\ (call = NoCall /\ call' = NoCall) => g_asert_anchor' = 0
    /\ (call = NoCall /\ call' # NoCall) =>
          IF FillsCache(call')
          THEN \/ g_asert_anchor' = AncestorAt(index, call'.pindexLast,
                                               params.nASERTHeight)
               \/ ret' = AssertFail /\ g_asert_anchor' = g_asert_anchor
          ELSE g_asert_anchor' = g_asert_anchor
    /\ call # NoCall => g_asert_anchor' = g_asert_anchor

\* C22: the anchor cache changes only by ResetASERTAnchorCache, which empties
\* it, and by an ASERT call that finds it empty with no_retargeting unset,
\* which sets it to the ancestor of its tip at height asert_height; every
\* other operation leaves it unchanged, and no operation modifies a block or
\* the params.
C22_CacheFrame == [][FrameStep]_vars

\* an ASERT call has filled the empty cache with the anchor of its tip, a
\* block below the tip
C22_Witness ==
    /\ call.op \in {"GetNextWorkRequired", "GetNextWorkRequiredASERT"}
    /\ RunsASERT(call)
    /\ call.anchor = 0
    /\ ~params.fPowNoRetargeting
    /\ ret # AssertFail
    /\ g_asert_anchor # 0
    /\ g_asert_anchor # call.pindexLast
    /\ g_asert_anchor = AncestorAt(index, call.pindexLast, params.nASERTHeight)

---------------------------------------------------------------------------
(* LWMA v1 and v2 called directly on every block of chains that start at   *)
(* genesis and of index excerpts whose first block has no parent           *)

DivSpacings == {1, 150}
DivWindows == {3, 4, 10}
DivLWMAHeights == {0, 1, 3}
DivBaseHeights == {0, 4}

DivParams(T, N, lwmaHeight) ==
    [LwmaParams EXCEPT !.nPowTargetSpacing = T, !.nPowTargetTimespan = 2 * T,
                       !.nLWMAWindow = N, !.nLWMAHeight = lwmaHeight,
                       !.nLWMAFixHeight = lwmaHeight + 2, !.nASERTHeight = 1000]

InitDiv ==
    /\ \E T \in DivSpacings, N \in DivWindows, lwmaHeight \in DivLWMAHeights :
         params = DivParams(T, N, lwmaHeight)
    /\ \E base \in DivBaseHeights, tp \in TimePatterns, bp \in {"limit", "mid"} :
         index = ChainFrom(base, tp, bp, params)
    /\ g_asert_anchor = 0
    /\ call = NoCall
    /\ ret = NoRet
    /\ active = Len(index)
    /\ resetPending = FALSE
    /\ threads = <<>>

NextDiv ==
    \/ \E t \in DOMAIN index : CallGetNextWorkRequiredLWMA(t)
    \/ \E t \in DOMAIN index : CallGetNextWorkRequiredLWMAv2(t)
    \/ Return

SpecDiv == InitDiv /\ [][NextDiv]_vars

\* the call in progress reaches the solvetime loop
LWMALoopRuns ==
    /\ call.op \in {"GetNextWorkRequiredLWMA", "GetNextWorkRequiredLWMAv2"}
    /\ ~params.fPowNoRetargeting
    /\ Blocks >= 3

\* <<sumWeightedSolvetimes, sumWeights>> of the call in progress
LWMASums ==
    WeightedSolvetimes(index, call.pindexLast, Blocks, params.nPowTargetSpacing, 0, 0)

\* the number of pairs the loop has accumulated: the p of which sumWeights is
\* the sum of the p weights blocks, blocks - 1, ...
LWMAPairs ==
    CHOOSE p \in 0..Blocks : 2 * LWMASums[2] = p * (2 * Blocks - p + 1)

\* C23: on a well-formed chain with T >= 1 and lwma_height >= 0, whenever
\* blocks >= 3 the solvetime loop of LWMA v1 and v2 accumulates at least one
\* parent-child pair, so expected = sum_w * T > 0 and the final division is
\* not by zero; the loop accumulates fewer than `blocks` pairs only when the
\* walk has reached the block without parent.
C23_NoDivisionByZero ==
    (LWMALoopRuns /\ WellFormedChain
        /\ params.nPowTargetSpacing >= 1 /\ params.nLWMAHeight >= 0) =>
        /\ \E p \in 0..Blocks : 2 * LWMASums[2] = p * (2 * Blocks - p + 1)
        /\ LWMAPairs >= 1
        /\ LWMASums[2] * params.nPowTargetSpacing > 0
        /\ ret # UintError
        /\ LWMAPairs < Blocks =>
              index[AncestorAt(index, call.pindexLast, Tip.nHeight - LWMAPairs)].pprev = 0

\* the loop stopped one pair early at the genesis block and the division went
\* through
C23_Witness ==
    /\ LWMALoopRuns
    /\ WellFormedChain
    /\ LWMAPairs = Blocks - 1
    /\ Tip.nHeight = LWMAPairs
    /\ ret # UintError

====
